---------------------------- MODULE Spec2Model ----------------------------
(***************************************************************************)
(* A model of src/main.ts: the "create-new-post" command (the Sequencer),  *)
(* its two prompts (PostKindChooserModal, PostTitleModal) and the naming   *)
(* function formatDatePrefix.                                              *)
(*                                                                         *)
(* A JavaScript string is modelled as the sequence of its UTF-16 code      *)
(* units, so that substring search, padding, case mapping and              *)
(* lexicographic comparison are computed and not assumed. A printable      *)
(* ASCII code unit is written as the one-character string of it; any       *)
(* other one, and the quotation mark, the backslash and the grave accent,  *)
(* is written by its code point: "U+00C9" is the capital E with an acute   *)
(* accent.                                                                 *)
(***************************************************************************)
EXTENDS Integers, Sequences, FiniteSets, TLC

\* ------------------------------------------------------------------ bounds

\* Number of invocations of the create-new-post command in one behaviour.
MaxRuns == 2

\* Longest query typed into the chooser that the model enumerates.
MaxQueryLen == 2

\* ----------------------------------------------------------------- strings

Range(s) == {s[i] : i \in DOMAIN s}

RECURSIVE Concat(_)
\* A template literal / string concatenation of several parts.
Concat(parts) ==
    IF parts = <<>> THEN <<>> ELSE Head(parts) \o Concat(Tail(parts))

Digits == <<"0", "1", "2", "3", "4", "5", "6", "7", "8", "9">>

RECURSIVE NatToString(_)
NatToString(n) ==
    IF n < 10 THEN <<Digits[n + 1]>>
    ELSE NatToString(n \div 10) \o <<Digits[(n % 10) + 1]>>

\* Number.prototype.toString() of an integer value.
toString(value) ==
    IF value < 0 THEN <<"-">> \o NatToString(-value) ELSE NatToString(value)

RECURSIVE Repeat(_, _)
Repeat(c, n) == IF n <= 0 THEN <<>> ELSE <<c>> \o Repeat(c, n - 1)

\* String.prototype.padStart(targetLength, padString) with a one-character
\* padString: a string already that long is returned unchanged.
padStart(s, targetLength, c) ==
    IF Len(s) >= targetLength THEN s ELSE Repeat(c, targetLength - Len(s)) \o s

\* The characters of the model: printable ASCII, the Latin-1 letters
\* U+00C0..U+00FF, the Greek letters, U+0130 and U+0307. The ones that
\* toLowerCase changes, whatever stands around them:
UpperCase ==
    << "A", "B", "C", "D", "E", "F", "G", "H", "I", "J", "K", "L", "M",
       "N", "O", "P", "Q", "R", "S", "T", "U", "V", "W", "X", "Y", "Z",
       "U+00C0", "U+00C1", "U+00C2", "U+00C3", "U+00C4", "U+00C5",
       "U+00C6", "U+00C7", "U+00C8", "U+00C9", "U+00CA", "U+00CB",
       "U+00CC", "U+00CD", "U+00CE", "U+00CF", "U+00D0", "U+00D1",
       "U+00D2", "U+00D3", "U+00D4", "U+00D5", "U+00D6", "U+00D8",
       "U+00D9", "U+00DA", "U+00DB", "U+00DC", "U+00DD", "U+00DE",
       "U+0391", "U+0392", "U+0393", "U+0394", "U+0395", "U+0396",
       "U+0397", "U+0398", "U+0399", "U+039A", "U+039B", "U+039C",
       "U+039D", "U+039E", "U+039F", "U+03A0", "U+03A1", "U+03A3",
       "U+03A4", "U+03A5", "U+03A6", "U+03A7", "U+03A8", "U+03A9", "U+0130" >>

\* What each of them becomes, in the same order (U+0130 becomes two code
\* units: i and the combining dot U+0307).
LowerCase ==
    << <<"a">>, <<"b">>, <<"c">>, <<"d">>, <<"e">>, <<"f">>, <<"g">>,
       <<"h">>, <<"i">>, <<"j">>, <<"k">>, <<"l">>, <<"m">>, <<"n">>,
       <<"o">>, <<"p">>, <<"q">>, <<"r">>, <<"s">>, <<"t">>, <<"u">>,
       <<"v">>, <<"w">>, <<"x">>, <<"y">>, <<"z">>, <<"U+00E0">>,
       <<"U+00E1">>, <<"U+00E2">>, <<"U+00E3">>, <<"U+00E4">>,
       <<"U+00E5">>, <<"U+00E6">>, <<"U+00E7">>, <<"U+00E8">>,
       <<"U+00E9">>, <<"U+00EA">>, <<"U+00EB">>, <<"U+00EC">>,
       <<"U+00ED">>, <<"U+00EE">>, <<"U+00EF">>, <<"U+00F0">>,
       <<"U+00F1">>, <<"U+00F2">>, <<"U+00F3">>, <<"U+00F4">>,
       <<"U+00F5">>, <<"U+00F6">>, <<"U+00F8">>, <<"U+00F9">>,
       <<"U+00FA">>, <<"U+00FB">>, <<"U+00FC">>, <<"U+00FD">>,
       <<"U+00FE">>, <<"U+03B1">>, <<"U+03B2">>, <<"U+03B3">>,
       <<"U+03B4">>, <<"U+03B5">>, <<"U+03B6">>, <<"U+03B7">>,
       <<"U+03B8">>, <<"U+03B9">>, <<"U+03BA">>, <<"U+03BB">>,
       <<"U+03BC">>, <<"U+03BD">>, <<"U+03BE">>, <<"U+03BF">>,
       <<"U+03C0">>, <<"U+03C1">>, <<"U+03C3">>, <<"U+03C4">>,
       <<"U+03C5">>, <<"U+03C6">>, <<"U+03C7">>, <<"U+03C8">>,
       <<"U+03C9">>, <<"i", "U+0307">> >>

\* The characters of the model that toLowerCase leaves as they are.
Unchanged ==
    { " ", "!", "U+0022", "#", "$", "%", "&", "'", "(", ")", "*", "+", ",",
      "-", ".", "/", "0", "1", "2", "3", "4", "5", "6", "7", "8", "9", ":",
      ";", "<", "=", ">", "?", "@", "[", "U+005C", "]", "^", "_", "U+0060", "a",
      "b", "c", "d", "e", "f", "g", "h", "i", "j", "k", "l", "m", "n", "o",
      "p", "q", "r", "s", "t", "u", "v", "w", "x", "y", "z", "{", "|", "}",
      "~", "U+00D7", "U+00DF", "U+00E0", "U+00E1", "U+00E2", "U+00E3",
      "U+00E4", "U+00E5", "U+00E6", "U+00E7", "U+00E8", "U+00E9", "U+00EA",
      "U+00EB", "U+00EC", "U+00ED", "U+00EE", "U+00EF", "U+00F0", "U+00F1",
      "U+00F2", "U+00F3", "U+00F4", "U+00F5", "U+00F6", "U+00F7", "U+00F8",
      "U+00F9", "U+00FA", "U+00FB", "U+00FC", "U+00FD", "U+00FE", "U+00FF",
      "U+03B1", "U+03B2", "U+03B3", "U+03B4", "U+03B5", "U+03B6", "U+03B7",
      "U+03B8", "U+03B9", "U+03BA", "U+03BB", "U+03BC", "U+03BD", "U+03BE",
      "U+03BF", "U+03C0", "U+03C1", "U+03C2", "U+03C3", "U+03C4", "U+03C5",
      "U+03C6", "U+03C7", "U+03C8", "U+03C9", "U+0307" }

\* The characters of the model with the Unicode property Cased.
Cased ==
    { "A", "B", "C", "D", "E", "F", "G", "H", "I", "J", "K", "L", "M", "N",
      "O", "P", "Q", "R", "S", "T", "U", "V", "W", "X", "Y", "Z", "a", "b",
      "c", "d", "e", "f", "g", "h", "i", "j", "k", "l", "m", "n", "o", "p",
      "q", "r", "s", "t", "u", "v", "w", "x", "y", "z", "U+00C0", "U+00C1",
      "U+00C2", "U+00C3", "U+00C4", "U+00C5", "U+00C6", "U+00C7", "U+00C8",
      "U+00C9", "U+00CA", "U+00CB", "U+00CC", "U+00CD", "U+00CE", "U+00CF",
      "U+00D0", "U+00D1", "U+00D2", "U+00D3", "U+00D4", "U+00D5", "U+00D6",
      "U+00D8", "U+00D9", "U+00DA", "U+00DB", "U+00DC", "U+00DD", "U+00DE",
      "U+00DF", "U+00E0", "U+00E1", "U+00E2", "U+00E3", "U+00E4", "U+00E5",
      "U+00E6", "U+00E7", "U+00E8", "U+00E9", "U+00EA", "U+00EB", "U+00EC",
      "U+00ED", "U+00EE", "U+00EF", "U+00F0", "U+00F1", "U+00F2", "U+00F3",
      "U+00F4", "U+00F5", "U+00F6", "U+00F8", "U+00F9", "U+00FA", "U+00FB",
      "U+00FC", "U+00FD", "U+00FE", "U+00FF", "U+0391", "U+0392", "U+0393",
      "U+0394", "U+0395", "U+0396", "U+0397", "U+0398", "U+0399", "U+039A",
      "U+039B", "U+039C", "U+039D", "U+039E", "U+039F", "U+03A0", "U+03A1",
      "U+03A3", "U+03A4", "U+03A5", "U+03A6", "U+03A7", "U+03A8", "U+03A9",
      "U+03B1", "U+03B2", "U+03B3", "U+03B4", "U+03B5", "U+03B6", "U+03B7",
      "U+03B8", "U+03B9", "U+03BA", "U+03BB", "U+03BC", "U+03BD", "U+03BE",
      "U+03BF", "U+03C0", "U+03C1", "U+03C2", "U+03C3", "U+03C4", "U+03C5",
      "U+03C6", "U+03C7", "U+03C8", "U+03C9", "U+0130" }

\* The characters of the model with the Unicode property Case_Ignorable.
CaseIgnorable == { "'", ".", ":", "^", "U+0060", "U+0307" }

\* The lowercase mapping of one character out of context. It is defined on
\* the characters of the model only.
LowerChar(c) ==
    CASE \E i \in DOMAIN UpperCase : UpperCase[i] = c
             -> LowerCase[CHOOSE i \in DOMAIN UpperCase : UpperCase[i] = c]
      [] c \in Unchanged -> <<c>>

\* Unicode's Final_Sigma: s[i] comes after a cased letter (case-ignorable
\* characters between them aside) and no cased letter comes after it
\* (case-ignorable characters aside).
FinalSigma(s, i) ==
    /\ \E j \in 1..(i - 1) :
          s[j] \in Cased /\ \A k \in (j + 1)..(i - 1) : s[k] \in CaseIgnorable
    /\ ~ \E j \in (i + 1)..Len(s) :
          s[j] \in Cased /\ \A k \in (i + 1)..(j - 1) : s[k] \in CaseIgnorable

\* What the character at place i of s becomes: a capital sigma becomes the
\* final small sigma U+03C2 where Final_Sigma holds.
LowerAt(s, i) ==
    IF s[i] = "U+03A3" /\ FinalSigma(s, i) THEN <<"U+03C2">> ELSE LowerChar(s[i])

\* String.prototype.toLowerCase().
toLowerCase(s) == Concat([i \in 1..Len(s) |-> LowerAt(s, i)])

RECURSIVE IndexOfFrom(_, _, _)
\* StringIndexOf(string, searchValue, fromIndex) of ECMAScript, 0-based:
\* the smallest k >= from with string[k .. k+len) = searchValue, or -1.
IndexOfFrom(string, searchValue, from) ==
    IF from + Len(searchValue) > Len(string) THEN -1
    ELSE IF \A j \in 1..Len(searchValue) : string[from + j] = searchValue[j]
         THEN from
         ELSE IndexOfFrom(string, searchValue, from + 1)

\* String.prototype.includes(searchString).
includes(string, searchString) == IndexOfFrom(string, searchString, 0) # -1

RECURSIVE SelectInOrder(_, _)
\* Array.prototype.filter: the elements that pass, in the array's order.
\* `keep` is the set of elements for which the callback returns true.
SelectInOrder(array, keep) ==
    IF array = <<>> THEN <<>>
    ELSE (IF Head(array) \in keep THEN <<Head(array)>> ELSE <<>>)
         \o SelectInOrder(Tail(array), keep)

\* ---------------------------------------------------------------- PostKind

BlogPost == <<"b", "l", "o", "g", "p", "o", "s", "t">>

Note == <<"n", "o", "t", "e">>

Photos == <<"p", "h", "o", "t", "o", "s">>

\* Object.values(PostKind): the members in declaration order.
PostKindValues == <<BlogPost, Note, Photos>>

\* --------------------------------------------------------- formatDatePrefix

\* pad without the padding.
padNone(value) == toString(value)

pad(value) == padStart(toString(value), 2, "0")

\* formatDatePrefix with the day written before the month.
formatDatePrefixDayFirst(date) ==
    LET year == toString(date.year)
        month == pad(date.month + 1)
        day == pad(date.day)
        hours == pad(date.hours)
        minutes == pad(date.minutes)
    IN  Concat(<<year, <<"-">>, day, <<"-">>, month, <<"-">>, hours, <<"-">>, minutes>>)

\* `date` holds the local calendar fields the Date getters return:
\* getFullYear, getMonth (0-based), getDate, getHours, getMinutes.
formatDatePrefix(date) ==
    LET year == toString(date.year)
        month == pad(date.month + 1)
        day == pad(date.day)
        hours == pad(date.hours)
        minutes == pad(date.minutes)
    IN  Concat(<<year, <<"-">>, month, <<"-">>, day, <<"-">>, hours, <<"-">>, minutes>>)

\* ------------------------------------------------------------ getSuggestions

\* getSuggestions comparing the query as typed, not lowercased.
getSuggestionsCaseSensitive(q) ==
    SelectInOrder(PostKindValues,
                  {postKind \in Range(PostKindValues) :
                       includes(toLowerCase(postKind), q)})

getSuggestions(q) ==
    SelectInOrder(PostKindValues,
                  {postKind \in Range(PostKindValues) :
                       includes(toLowerCase(postKind), toLowerCase(q))})


\* ------------------------------------------------------------- environment

Runs == 1..MaxRuns

\* The local calendar fields the wall clock shows, in the order it shows
\* them. The first is the instant of the first invocation of the command.
Instants ==
    << [year |-> 2024, month |-> 2, day |-> 5, hours |-> 9, minutes |-> 7],
       [year |-> 2024, month |-> 2, day |-> 5, hours |-> 9, minutes |-> 8] >>

\* The values a user types into the title field.
TitleInputs == {<<>>, <<"h", "e", "l", "l", "o">>}

\* Descriptions of the failures the host storage and navigation throw.
EExist == <<"E", "E", "X", "I", "S", "T">>

EIo == <<"E", "I", "O">>

ContentPosts ==
    <<"c", "o", "n", "t", "e", "n", "t", "/", "p", "o", "s", "t", "s", "/">>

NotePrefix == <<"n", "o", "t", "e", "-">>

IndexMd == <<"/", "i", "n", "d", "e", "x", ".", "m", "d">>

VARIABLES
    pc,            \* run -> where the async callback of that invocation stands
    postKind,      \* run -> the value the first promise resolved with
    postTitle,     \* run -> the value the second promise resolved with
    chooserOpen,   \* run -> its PostKindChooserModal is open
    titleOpen,     \* run -> its PostTitleModal is open
    name,          \* run -> the `name` buffer of its PostTitleModal
    folderName,    \* run -> the path handed to vault.createFolder
    notices,       \* run -> the messages of the Notices it has shown
    log,           \* run -> the calls it made and the results it got, in order
    vaultFolders,  \* the folder paths in the vault
    vaultFiles,    \* the file paths in the vault
    activeFile,    \* the file open in the active leaf (<<>>: none)
    clock,         \* index into Instants: the wall clock
    resolvedAt,    \* run -> the instant at which the title promise resolved
    lastChange,    \* run -> <<v>>: the last change event of its open title modal
    dismissed,     \* run -> the prompt that was closed without confirming
    resolveCalls,  \* run -> how often each prompt called its onSubmit (0, 1, 2: more)
    thrown,        \* run -> <<e>>: the host failure its try block caught
    query,         \* the query last handed to getSuggestions
    suggestions,   \* what getSuggestions returned for it
    date,          \* the calendar fields last handed to formatDatePrefix
    prefix,        \* what formatDatePrefix returned for them
    other,         \* a second instant, formatted beside `date`
    otherPrefix    \* what formatDatePrefix returned for `other`

runVars == <<pc, postKind, postTitle, folderName, notices, log, resolvedAt,
             resolveCalls, thrown>>

promptVars == <<chooserOpen, titleOpen, name, lastChange, dismissed>>

hostVars == <<vaultFolders, vaultFiles, activeFile>>

pureVars == <<query, suggestions, date, prefix, other, otherPrefix>>

vars == <<runVars, promptVars, hostVars, clock, pureVars>>

NoDate == [year |-> 0, month |-> 0, day |-> 1, hours |-> 0, minutes |-> 0]

\* The chooser as the host opens it: an empty input, for which it has asked
\* getSuggestions. formatDatePrefix has not been called: no prefix yet.
InitPure ==
    /\ query = <<>>
    /\ suggestions = getSuggestions(<<>>)
    /\ date = NoDate
    /\ prefix = <<>>
    /\ other = NoDate
    /\ otherPrefix = <<>>

InitSequencer ==
    /\ pc = [r \in Runs |-> "idle"]
    /\ postKind = [r \in Runs |-> <<>>]
    /\ postTitle = [r \in Runs |-> <<>>]
    /\ chooserOpen = [r \in Runs |-> FALSE]
    /\ titleOpen = [r \in Runs |-> FALSE]
    /\ name = [r \in Runs |-> <<>>]
    /\ folderName = [r \in Runs |-> <<>>]
    /\ notices = [r \in Runs |-> <<>>]
    /\ log = [r \in Runs |-> <<>>]
    /\ vaultFolders = {}
    /\ vaultFiles = {}
    /\ activeFile = <<>>
    /\ clock = 1
    /\ resolvedAt = [r \in Runs |-> NoDate]
    /\ lastChange = [r \in Runs |-> <<>>]
    /\ dismissed = [r \in Runs |-> "none"]
    /\ resolveCalls = [r \in Runs |-> [kind |-> 0, title |-> 0]]
    /\ thrown = [r \in Runs |-> <<>>]

Init == InitSequencer /\ InitPure

\* One more call, counted as 0, 1 or 2 (two or more).
Bump(n) == IF n < 2 THEN n + 1 ELSE 2

\* ------------------------------------------------- the create-new-post run

\* A Date taken once, at the first invocation, and used ever after.
NewDateAtFirstInvocation(r) == Instants[1]

\* new Date(): the wall clock at the moment the expression is evaluated.
NewDate(r) == Instants[clock]

\* A catch block that also removes the folder of the run.
CatchAndCleanUp(r, e, failed) ==
    /\ notices' = [notices EXCEPT ![r] = Append(@, e)]
    /\ log' = [log EXCEPT ![r] = @ \o <<failed, "noticeError">>]
    /\ thrown' = [thrown EXCEPT ![r] = <<e>>]
    /\ pc' = [pc EXCEPT ![r] = "done"]
    /\ vaultFolders' = vaultFolders \ {folderName[r]}
    /\ UNCHANGED <<vaultFiles, activeFile>>

\* catch (e) { new Notice(e) }: the callback then returns.
Catch(r, e, failed) ==
    /\ notices' = [notices EXCEPT ![r] = Append(@, e)]
    /\ log' = [log EXCEPT ![r] = @ \o <<failed, "noticeError">>]
    /\ thrown' = [thrown EXCEPT ![r] = <<e>>]
    /\ pc' = [pc EXCEPT ![r] = "done"]
    /\ UNCHANGED hostVars

\* kindPrefix, datePrefix and the template literal of folderName.
FolderName(kind, title, now) ==
    LET kindPrefix == IF kind = Note THEN NotePrefix ELSE <<>>
        datePrefix == formatDatePrefix(now)
    IN  Concat(<<ContentPosts, kindPrefix, datePrefix, <<"-">>, title>>)

\* The callback from the resolution of the title promise to its next await:
\* new Notice(postTitle), the folder name, the call of vault.createFolder.
ResumeWithTitle(r, title) ==
    /\ postTitle' = [postTitle EXCEPT ![r] = title]
    /\ notices' = [notices EXCEPT ![r] = Append(@, title)]
    /\ folderName' = [folderName EXCEPT ![r] = FolderName(postKind[r], title, NewDate(r))]
    /\ log' = [log EXCEPT ![r] = @ \o <<"textResolved", "noticeTitle", "createFolder">>]
    /\ pc' = [pc EXCEPT ![r] = "creatingFolder"]

\* The callback from the resolution of the kind promise to its next await:
\* new Notice(postKind), then a new PostTitleModal (name = "") is opened.
ResumeWithKind(r, kind) ==
    /\ postKind' = [postKind EXCEPT ![r] = kind]
    /\ notices' = [notices EXCEPT ![r] = Append(@, kind)]
    /\ name' = [name EXCEPT ![r] = <<>>]
    /\ titleOpen' = [titleOpen EXCEPT ![r] = TRUE]
    /\ log' = [log EXCEPT ![r] = @ \o <<"choiceResolved", "noticeKind", "openText">>]
    /\ pc' = [pc EXCEPT ![r] = "awaitTitle"]

\* The callback with the first promise not awaited: both prompts open.
InvokeWithoutAwait(r) ==
    /\ pc[r] = "idle"
    /\ r > 1 => pc[r - 1] # "idle"
    /\ chooserOpen' = [chooserOpen EXCEPT ![r] = TRUE]
    /\ titleOpen' = [titleOpen EXCEPT ![r] = TRUE]
    /\ log' = [log EXCEPT ![r] = <<"openChoice", "openText">>]
    /\ pc' = [pc EXCEPT ![r] = "awaitTitle"]
    /\ UNCHANGED <<postKind, postTitle, folderName, notices, resolvedAt,
                   resolveCalls, thrown, name, lastChange, dismissed,
                   hostVars, clock, pureVars>>

\* The command's callback up to its first await: the chooser is opened.
Invoke(r) ==
    /\ pc[r] = "idle"
    /\ r > 1 => pc[r - 1] # "idle"
    /\ chooserOpen' = [chooserOpen EXCEPT ![r] = TRUE]
    /\ log' = [log EXCEPT ![r] = <<"openChoice">>]
    /\ pc' = [pc EXCEPT ![r] = "awaitKind"]
    /\ UNCHANGED <<postKind, postTitle, folderName, notices, resolvedAt,
                   resolveCalls, thrown, titleOpen, name, lastChange, dismissed,
                   hostVars, clock, pureVars>>

\* -------------------------------------------------- PostKindChooserModal

\* onChooseSuggestion: this.onSubmit(postKind), which is resolve(postKind).
\* A promise that is no longer pending ignores the call.
onChooseSuggestion(r, kind) ==
    /\ resolveCalls' = [resolveCalls EXCEPT ![r].kind = Bump(@)]
    /\ IF pc[r] = "awaitKind"
       THEN ResumeWithKind(r, kind)
       ELSE UNCHANGED <<postKind, notices, name, titleOpen, log, pc>>

\* The host's SuggestModal on a click or Enter on a rendered suggestion:
\* it closes the modal and hands the value to onChooseSuggestion.
SelectSuggestion(r) ==
    /\ chooserOpen[r]
    /\ \E kind \in Range(getSuggestions(<<>>)) :
          /\ chooserOpen' = [chooserOpen EXCEPT ![r] = FALSE]
          /\ onChooseSuggestion(r, kind)
    /\ UNCHANGED <<postTitle, folderName, resolvedAt, thrown, lastChange,
                   dismissed, hostVars, clock, pureVars>>

\* The host closes the chooser with no selection (Escape, a click outside).
DismissChooser(r) ==
    /\ chooserOpen[r]
    /\ chooserOpen' = [chooserOpen EXCEPT ![r] = FALSE]
    /\ dismissed' = [dismissed EXCEPT ![r] = "choice"]
    /\ UNCHANGED <<runVars, titleOpen, name, lastChange, hostVars, clock, pureVars>>

\* --------------------------------------------------------- PostTitleModal

\* An onChange that keeps the buffer when the field is cleared.
onChangeUnlessEmpty(r, value) ==
    name' = [name EXCEPT ![r] = IF value = <<>> THEN @ ELSE value]

\* text.onChange((value) => { name = value; })
onChange(r, value) == name' = [name EXCEPT ![r] = value]

\* The host delivers a change event of the text field.
ChangeText(r) ==
    /\ titleOpen[r]
    /\ \E value \in TitleInputs :
          /\ onChange(r, value)
          /\ lastChange' = [lastChange EXCEPT ![r] = <<value>>]
    /\ UNCHANGED <<runVars, chooserOpen, titleOpen, dismissed, hostVars, clock, pureVars>>

\* The Submit button's onClick without this.close().
SubmitOnClickStaysOpen(r) ==
    /\ titleOpen' = titleOpen
    /\ resolveCalls' = [resolveCalls EXCEPT ![r].title = Bump(@)]
    /\ IF pc[r] = "awaitTitle"
       THEN /\ ResumeWithTitle(r, name[r])
            /\ resolvedAt' = [resolvedAt EXCEPT ![r] = Instants[clock]]
       ELSE UNCHANGED <<postTitle, notices, folderName, log, pc, resolvedAt>>

\* The Submit button's onClick: this.close(); onSubmit(name), which is
\* resolve(name). A promise that is no longer pending ignores the call.
SubmitOnClick(r) ==
    /\ titleOpen' = [titleOpen EXCEPT ![r] = FALSE]
    /\ resolveCalls' = [resolveCalls EXCEPT ![r].title = Bump(@)]
    /\ IF pc[r] = "awaitTitle"
       THEN /\ ResumeWithTitle(r, name[r])
            /\ resolvedAt' = [resolvedAt EXCEPT ![r] = Instants[clock]]
       ELSE UNCHANGED <<postTitle, notices, folderName, log, pc, resolvedAt>>

\* The host delivers a click on the Submit button of an open modal.
ClickSubmit(r) ==
    /\ titleOpen[r]
    /\ SubmitOnClick(r)
    /\ lastChange' = [lastChange EXCEPT ![r] = IF titleOpen'[r] THEN @ ELSE <<>>]
    /\ UNCHANGED <<postKind, thrown, chooserOpen, name, dismissed, hostVars,
                   clock, pureVars>>

\* A title modal whose closing resolves the promise with the buffer.
DismissTitleResolves(r) ==
    /\ titleOpen[r]
    /\ dismissed' = [dismissed EXCEPT ![r] = "text"]
    /\ SubmitOnClick(r)
    /\ lastChange' = [lastChange EXCEPT ![r] = <<>>]
    /\ UNCHANGED <<postKind, thrown, chooserOpen, name, hostVars, clock, pureVars>>

\* The host closes the title modal with no submit (Escape, the close button).
DismissTitle(r) ==
    /\ titleOpen[r]
    /\ titleOpen' = [titleOpen EXCEPT ![r] = FALSE]
    /\ dismissed' = [dismissed EXCEPT ![r] = "text"]
    /\ lastChange' = [lastChange EXCEPT ![r] = <<>>]
    /\ UNCHANGED <<runVars, chooserOpen, name, hostVars, clock, pureVars>>

\* ------------------------------------------------- the host's answers

\* `${folder.path}/index.md`, with folder.path the path the folder was made at.
IndexPath(r) == folderName[r] \o IndexMd

\* After createFolder resolved: new Notice(folder.path), then vault.create.
AfterCreateFolder(r) ==
    /\ notices' = [notices EXCEPT ![r] = Append(@, folderName[r])]
    /\ log' = [log EXCEPT ![r] = @ \o <<"folderOk", "noticePath", "createFile">>]
    /\ pc' = [pc EXCEPT ![r] = "creatingFile"]
    /\ UNCHANGED thrown

\* After create resolved: workspace.getLeaf(false), then leaf.openFile(file).
AfterCreateFile(r) ==
    /\ log' = [log EXCEPT ![r] = @ \o <<"fileOk", "openFile">>]
    /\ pc' = [pc EXCEPT ![r] = "openingFile"]
    /\ UNCHANGED <<notices, thrown>>

\* vault.createFolder resolves: the folder did not exist and now does.
CreateFolderResolves(r) ==
    /\ pc[r] = "creatingFolder"
    /\ folderName[r] \notin vaultFolders
    /\ vaultFolders' = vaultFolders \cup {folderName[r]}
    /\ AfterCreateFolder(r)
    /\ UNCHANGED <<postKind, postTitle, folderName, resolvedAt, resolveCalls,
                   promptVars, vaultFiles, activeFile, clock, pureVars>>

\* A try block around createFolder alone: after the notice of its failure
\* the callback goes on to vault.create.
CreateFolderRejectsAndGoesOn(r) ==
    /\ pc[r] = "creatingFolder"
    /\ notices' = [notices EXCEPT ![r] =
           Append(@, IF folderName[r] \in vaultFolders THEN EExist ELSE EIo)]
    /\ log' = [log EXCEPT ![r] = @ \o <<"folderFail", "noticeError", "createFile">>]
    /\ thrown' = [thrown EXCEPT ![r] =
           <<IF folderName[r] \in vaultFolders THEN EExist ELSE EIo>>]
    /\ pc' = [pc EXCEPT ![r] = "creatingFile"]
    /\ UNCHANGED <<postKind, postTitle, folderName, resolvedAt, resolveCalls,
                   promptVars, hostVars, clock, pureVars>>

\* vault.createFolder rejects: the folder exists, or the host fails.
CreateFolderRejects(r) ==
    /\ pc[r] = "creatingFolder"
    /\ Catch(r, IF folderName[r] \in vaultFolders THEN EExist ELSE EIo, "folderFail")
    /\ UNCHANGED <<postKind, postTitle, folderName, resolvedAt, resolveCalls,
                   promptVars, clock, pureVars>>

\* vault.create resolves: the empty document now exists.
CreateFileResolves(r) ==
    /\ pc[r] = "creatingFile"
    /\ IndexPath(r) \notin vaultFiles
    /\ vaultFiles' = vaultFiles \cup {IndexPath(r)}
    /\ AfterCreateFile(r)
    /\ UNCHANGED <<postKind, postTitle, folderName, resolvedAt, resolveCalls,
                   promptVars, vaultFolders, activeFile, clock, pureVars>>

\* vault.create rejects.
CreateFileRejects(r) ==
    /\ pc[r] = "creatingFile"
    /\ Catch(r, IF IndexPath(r) \in vaultFiles THEN EExist ELSE EIo, "fileFail")
    /\ UNCHANGED <<postKind, postTitle, folderName, resolvedAt, resolveCalls,
                   promptVars, clock, pureVars>>

\* leaf.openFile resolves: the document is shown; the callback returns.
OpenFileResolves(r) ==
    /\ pc[r] = "openingFile"
    /\ activeFile' = IndexPath(r)
    /\ log' = [log EXCEPT ![r] = Append(@, "openOk")]
    /\ pc' = [pc EXCEPT ![r] = "done"]
    /\ UNCHANGED <<postKind, postTitle, folderName, notices, resolvedAt,
                   resolveCalls, thrown, promptVars, vaultFolders, vaultFiles,
                   clock, pureVars>>

\* leaf.openFile rejects.
OpenFileRejects(r) ==
    /\ pc[r] = "openingFile"
    /\ Catch(r, EIo, "openFail")
    /\ UNCHANGED <<postKind, postTitle, folderName, resolvedAt, resolveCalls,
                   promptVars, clock, pureVars>>

\* The wall clock moves on to its next instant. Time is counted from the
\* first invocation of the command: Instants[1] is the clock at that moment.
Tick ==
    /\ pc[1] # "idle"
    /\ clock < Len(Instants)
    /\ clock' = clock + 1
    /\ UNCHANGED <<runVars, promptVars, hostVars, pureVars>>

Next ==
    \/ \E r \in Runs : Invoke(r)
    \/ \E r \in Runs : SelectSuggestion(r)
    \/ \E r \in Runs : DismissChooser(r)
    \/ \E r \in Runs : ChangeText(r)
    \/ \E r \in Runs : ClickSubmit(r)
    \/ \E r \in Runs : DismissTitle(r)
    \/ \E r \in Runs : CreateFolderResolves(r)
    \/ \E r \in Runs : CreateFolderRejects(r)
    \/ \E r \in Runs : CreateFileResolves(r)
    \/ \E r \in Runs : CreateFileRejects(r)
    \/ \E r \in Runs : OpenFileResolves(r)
    \/ \E r \in Runs : OpenFileRejects(r)
    \/ Tick

Spec == Init /\ [][Next]_vars


\* ------------------------------------------- getSuggestions on its own

\* The characters the enumerated queries are made of.
QueryAlphabet ==
    {"o", "O", "t", "T", "e", "s", "n", "N", "p", "h", "x", "U+00C9", "U+0130"}

\* The host's SuggestModal on an input event: it asks getSuggestions for the
\* candidates to render for the text now in the input.
OnInput(q) ==
    /\ query' = q
    /\ suggestions' = getSuggestions(q)
    /\ UNCHANGED <<runVars, promptVars, hostVars, clock, date, prefix, other,
                   otherPrefix>>

\* The user types one more character into the chooser's input.
TypeChar ==
    /\ Len(query) < MaxQueryLen
    /\ \E c \in QueryAlphabet : OnInput(Append(query, c))

\* The user deletes the last character of the chooser's input.
Backspace ==
    /\ query # <<>>
    /\ OnInput(SubSeq(query, 1, Len(query) - 1))

NextSuggest == TypeChar \/ Backspace

SpecSuggest == Init /\ [][NextSuggest]_vars

\* ----------------------------------------- formatDatePrefix on its own

\* Years of one to five digits, and one before year 0.
Years == {-1, 0, 7, 99, 999, 1000, 2024, 9999, 10000}

\* A few times of day, and a few days of the year (month index, day).
SomeTimes == {<<0, 0>>, <<9, 7>>, <<10, 10>>, <<23, 59>>}

SomeDays == {<<0, 1>>, <<2, 5>>, <<9, 10>>, <<11, 31>>}

\* Instants on both sides of every change in the number of digits of a
\* field, the year included (31 December 9999 is followed by year 10000).
PairDates ==
    [year : {2024, 2025, 9999, 10000}, month : {0, 8, 9}, day : {9, 10},
     hours : {9, 10}, minutes : {0, 9, 10}]

\* One call of formatDatePrefix.
Format(y, md, hm) ==
    /\ date' = [year |-> y, month |-> md[1], day |-> md[2],
                hours |-> hm[1], minutes |-> hm[2]]
    /\ prefix' = formatDatePrefix(date')
    /\ UNCHANGED <<runVars, promptVars, hostVars, clock, query, suggestions,
                   other, otherPrefix>>

\* A call with any month index and any day number, at a few times of day.
FormatAnyDay ==
    /\ prefix = <<>>
    /\ \E y \in Years, md \in (0..11) \X (1..31), hm \in SomeTimes : Format(y, md, hm)

\* A call with any hour and any minute, on a few days.
FormatAnyTime ==
    /\ prefix = <<>>
    /\ \E y \in Years, md \in SomeDays, hm \in (0..23) \X (0..59) : Format(y, md, hm)

\* Two calls of formatDatePrefix, on two instants.
FormatPair ==
    /\ prefix = <<>>
    /\ \E a \in PairDates, b \in PairDates :
          /\ date' = a
          /\ prefix' = formatDatePrefix(a)
          /\ other' = b
          /\ otherPrefix' = formatDatePrefix(b)
    /\ UNCHANGED <<runVars, promptVars, hostVars, clock, query, suggestions>>

NextFmt == FormatAnyDay \/ FormatAnyTime \/ FormatPair

SpecFmt == Init /\ [][NextFmt]_vars

\* ================================================================ claims

\* ------------------------------------------------------- what the spec says

\* s occurs in t as a block of consecutive characters.
OccursIn(s, t) ==
    \E i \in 0..(Len(t) - Len(s)) : SubSeq(t, i + 1, i + Len(s)) = s

\* The small form of a character of QueryAlphabet: of the capitals O, T, N,
\* of the accented capital E, and of the dotted capital I, whose small form
\* is an i followed by a combining dot.
SmallOf(c) ==
    CASE c = "O" -> <<"o">>
      [] c = "T" -> <<"t">>
      [] c = "N" -> <<"n">>
      [] c = "U+00C9" -> <<"U+00E9">>
      [] c = "U+0130" -> <<"i", "U+0307">>
      [] OTHER -> <<c>>

RECURSIVE Folded(_)
\* s with every character replaced by its small form.
Folded(s) == IF s = <<>> THEN <<>> ELSE SmallOf(Head(s)) \o Folded(Tail(s))

\* The candidates in the order of their declaration.
Candidates ==
    << <<"b", "l", "o", "g", "p", "o", "s", "t">>,
       <<"n", "o", "t", "e">>,
       <<"p", "h", "o", "t", "o", "s">> >>

PlaceOf(c) == CHOOSE i \in DOMAIN Candidates : Candidates[i] = c

DigitValue(c) == (CHOOSE i \in DOMAIN Digits : Digits[i] = c) - 1

RECURSIVE DecimalValue(_)
\* The number a string of digits denotes.
DecimalValue(s) ==
    IF s = <<>> THEN 0
    ELSE 10 * DecimalValue(SubSeq(s, 1, Len(s) - 1)) + DigitValue(s[Len(s)])

\* n in 0..99 written with exactly two digits.
TwoDigits(n) == <<Digits[(n \div 10) + 1], Digits[(n % 10) + 1]>>

\* s is the year y written as is: its decimal digits with no padding, after
\* a minus sign when y is negative.
IsYearAsIs(s, y) ==
    LET ds == IF y < 0 /\ s # <<>> THEN Tail(s) ELSE s
    IN  /\ y < 0 => (s # <<>> /\ Head(s) = "-")
        /\ ds # <<>>
        /\ \A i \in DOMAIN ds : ds[i] \in Range(Digits)
        /\ Len(ds) = 1 \/ ds[1] # "0"
        /\ DecimalValue(ds) = (IF y < 0 THEN -y ELSE y)

\* "-MM-DD-hh-mm" of the calendar fields, the month counted from 1.
FieldsTail(d) ==
    <<"-">> \o TwoDigits(d.month + 1) \o <<"-">> \o TwoDigits(d.day)
    \o <<"-">> \o TwoDigits(d.hours) \o <<"-">> \o TwoDigits(d.minutes)

\* p is "{year}-{MM}-{DD}-{hh}-{mm}" of the calendar fields d.
IsDatePrefixOf(p, d) ==
    /\ Len(p) > Len(FieldsTail(d))
    /\ IsYearAsIs(SubSeq(p, 1, Len(p) - Len(FieldsTail(d))), d.year)
    /\ SubSeq(p, Len(p) - Len(FieldsTail(d)) + 1, Len(p)) = FieldsTail(d)

\* The UTF-16 code unit of a character of a date prefix.
CodeUnit(c) == IF c = "-" THEN 45 ELSE 48 + DigitValue(c)

RECURSIVE LexLeq(_, _)
\* s <= t as JavaScript compares strings: code unit by code unit.
LexLeq(s, t) ==
    IF s = <<>> THEN TRUE
    ELSE IF t = <<>> THEN FALSE
    ELSE IF CodeUnit(Head(s)) # CodeUnit(Head(t))
         THEN CodeUnit(Head(s)) < CodeUnit(Head(t))
         ELSE LexLeq(Tail(s), Tail(t))

\* a is before b in (year, month, day, hour, minute) order.
Earlier(a, b) ==
    LET ka == <<a.year, a.month, a.day, a.hours, a.minutes>>
        kb == <<b.year, b.month, b.day, b.hours, b.minutes>>
    IN  \E i \in 1..5 : ka[i] < kb[i] /\ \A j \in 1..(i - 1) : ka[j] = kb[j]

RECURSIVE NumDigits(_)
NumDigits(n) == IF n < 10 THEN 1 ELSE 1 + NumDigits(n \div 10)

\* Both years are written with the same number of digits and no sign.
SameWidthYears(a, b) ==
    a.year >= 0 /\ b.year >= 0 /\ NumDigits(a.year) = NumDigits(b.year)

\* ----------------------------------------------------------------- C4

\* C4: for every query the suggestions are exactly the candidates blogpost,
\* note, photos whose lowercased text contains the lowercased query, in the
\* order of declaration (so a subsequence of the candidates), and the empty
\* query gives all three.
C4_SuggestionsAreTheMatchingCandidates ==
    /\ \A c \in Range(Candidates) :
          c \in Range(suggestions) <=> OccursIn(Folded(query), Folded(c))
    /\ Range(suggestions) \subseteq Range(Candidates)
    /\ \A i, j \in DOMAIN suggestions :
          i < j => PlaceOf(suggestions[i]) < PlaceOf(suggestions[j])
    /\ query = <<>> => suggestions = Candidates

\* A query in capitals that keeps note and photos and drops blogpost.
C4_Witness ==
    /\ query = <<"O", "T">>
    /\ suggestions = << <<"n", "o", "t", "e">>, <<"p", "h", "o", "t", "o", "s">> >>

\* ----------------------------------------------------------------- C7

\* C7: for every year, month index, day, hour and minute formatDatePrefix
\* returns "{year}-{MM}-{DD}-{hh}-{mm}": the month counted from 1, month,
\* day, hour and minute with exactly two digits, the year as is; for
\* 5 March 2024, 09:07 it returns "2024-03-05-09-07".
C7_DatePrefixFormat ==
    /\ prefix # <<>> => IsDatePrefixOf(prefix, date)
    /\ otherPrefix # <<>> => IsDatePrefixOf(otherPrefix, other)
    /\ ( /\ prefix # <<>>
         /\ date = [year |-> 2024, month |-> 2, day |-> 5, hours |-> 9, minutes |-> 7] )
       => prefix = <<"2", "0", "2", "4", "-", "0", "3", "-", "0", "5", "-",
                     "0", "9", "-", "0", "7">>

\* The spec's example has been formatted.
C7_Witness ==
    /\ date = [year |-> 2024, month |-> 2, day |-> 5, hours |-> 9, minutes |-> 7]
    /\ prefix = <<"2", "0", "2", "4", "-", "0", "3", "-", "0", "5", "-",
                  "0", "9", "-", "0", "7">>

\* ----------------------------------------------------------------- C10

\* The instants of two formatted prefixes collide exactly when equal, and so
\* do the folder names of two runs with one kind and one title.
CollideOnlyInSameMinute ==
    /\ prefix = otherPrefix <=> date = other
    /\ \A kind \in Range(PostKindValues), title \in TitleInputs :
          FolderName(kind, title, date) = FolderName(kind, title, other)
              <=> date = other

\* C10 as stated: for any two instants a and b, a earlier than b implies
\* formatDatePrefix(a) <= formatDatePrefix(b) lexicographically, and the
\* prefixes (and the folder names of two runs with the same kind and title)
\* are equal if and only if a and b agree on year, month, day, hour, minute.
C10_Original_SortableForAnyTwoInstants ==
    otherPrefix # <<>> =>
        /\ Earlier(date, other) => LexLeq(prefix, otherPrefix)
        /\ CollideOnlyInSameMinute

\* C10 (amended): for any two instants whose years are not negative and have
\* the same number of digits, a earlier than b implies formatDatePrefix(a) <=
\* formatDatePrefix(b) lexicographically; for any two instants at all the
\* prefixes (and the folder names of two runs with the same kind and title)
\* are equal if and only if a and b agree on year, month, day, hour, minute.
C10_SortableForYearsOfOneWidth ==
    otherPrefix # <<>> =>
        /\ (SameWidthYears(date, other) /\ Earlier(date, other))
               => LexLeq(prefix, otherPrefix)
        /\ CollideOnlyInSameMinute

\* Two instants of one hour, at minutes 9 and 10, formatted in that order.
C10_Witness ==
    /\ otherPrefix # <<>>
    /\ date.minutes = 9
    /\ other = [date EXCEPT !.minutes = 10]
    /\ prefix # otherPrefix
    /\ LexLeq(prefix, otherPrefix)

\* ------------------------------------------------- the runs, as specified

Last(s) == s[Len(s)]

\* How often e occurs in the sequence s.
Count(s, e) == Cardinality({i \in DOMAIN s : s[i] = e})

IsPrefix(s, t) == Len(s) <= Len(t) /\ SubSeq(t, 1, Len(s)) = s

\* The steps of a run in which nothing fails, in the order the spec gives.
StepsInOrder ==
    <<"openChoice", "choiceResolved", "noticeKind", "openText", "textResolved",
      "noticeTitle", "createFolder", "folderOk", "noticePath", "createFile",
      "fileOk", "openFile", "openOk">>

\* The runs the spec admits: all steps, or the steps up to a request that
\* fails and then the notice of the failure.
AdmittedRuns ==
    { StepsInOrder,
      SubSeq(StepsInOrder, 1, 7) \o <<"folderFail", "noticeError">>,
      SubSeq(StepsInOrder, 1, 10) \o <<"fileFail", "noticeError">>,
      SubSeq(StepsInOrder, 1, 12) \o <<"openFail", "noticeError">> }

Hello == <<"h", "e", "l", "l", "o">>

\* "content/posts/" + kindPrefix + p + "-" + title for a date prefix p of d.
IsFolderNameOf(path, kind, title, d) ==
    LET head == <<"c", "o", "n", "t", "e", "n", "t", "/", "p", "o", "s", "t", "s", "/">>
                \o (IF kind = <<"n", "o", "t", "e">> THEN <<"n", "o", "t", "e", "-">> ELSE <<>>)
        tail == <<"-">> \o title
        n == Len(path)
    IN  /\ n > Len(head) + Len(tail)
        /\ SubSeq(path, 1, Len(head)) = head
        /\ SubSeq(path, n - Len(tail) + 1, n) = tail
        /\ IsDatePrefixOf(SubSeq(path, Len(head) + 1, n - Len(tail)), d)

\* ----------------------------------------------------------------- C1

\* C1: in every run the steps happen in order: the Choice Prompt is opened;
\* the Text Prompt only after the Choice Prompt resolved; folder creation is
\* requested only after the Text Prompt resolved; file creation only after
\* folder creation succeeded; navigation only after file creation succeeded;
\* and no later step occurs while an earlier one is pending.
C1_StepsStrictlyInOrder ==
    \A r \in Runs :
        /\ \E run \in AdmittedRuns : IsPrefix(log[r], run)
        /\ chooserOpen[r] => log[r] = SubSeq(StepsInOrder, 1, 1)
        /\ titleOpen[r] => log[r] = SubSeq(StepsInOrder, 1, 4)
        /\ pc[r] = "creatingFolder" => log[r] = SubSeq(StepsInOrder, 1, 7)
        /\ pc[r] = "creatingFile" => log[r] = SubSeq(StepsInOrder, 1, 10)
        /\ pc[r] = "openingFile" => log[r] = SubSeq(StepsInOrder, 1, 12)
        /\ ~(chooserOpen[r] /\ titleOpen[r])

\* A run went through every step and its document is shown.
C1_Witness ==
    \E r \in Runs :
        /\ pc[r] = "done"
        /\ log[r] = StepsInOrder
        /\ activeFile = folderName[r] \o <<"/", "i", "n", "d", "e", "x", ".", "m", "d">>

\* ----------------------------------------------------------------- C2

\* C2: the path passed to folder creation is "content/posts/" + kindPrefix +
\* formatDatePrefix(t) + "-" + title, kindPrefix being "note-" exactly for
\* the kind note, and t the wall-clock time at which the second prompt
\* resolved; for note, "hello" and 5 March 2024 09:07 it is
\* "content/posts/note-2024-03-05-09-07-hello", for blogpost the same
\* without "note-".
C2_FolderNameIsPrefixKindDateTitle ==
    \A r \in Runs :
        folderName[r] # <<>> =>
            /\ postKind[r] \in Range(Candidates)
            /\ IsFolderNameOf(folderName[r], postKind[r], postTitle[r], resolvedAt[r])
            /\ ( /\ postTitle[r] = Hello
                 /\ resolvedAt[r] = [year |-> 2024, month |-> 2, day |-> 5,
                                     hours |-> 9, minutes |-> 7] )
               => folderName[r] =
                      <<"c", "o", "n", "t", "e", "n", "t", "/", "p", "o", "s", "t", "s", "/">>
                      \o (IF postKind[r] = <<"n", "o", "t", "e">>
                          THEN <<"n", "o", "t", "e", "-">> ELSE <<>>)
                      \o <<"2", "0", "2", "4", "-", "0", "3", "-", "0", "5", "-",
                           "0", "9", "-", "0", "7", "-", "h", "e", "l", "l", "o">>

\* The first run, invoked at 09:07, got its title at 09:08: its folder name
\* carries 09:08.
C2_Witness ==
    /\ postKind[1] = <<"n", "o", "t", "e">>
    /\ postTitle[1] = Hello
    /\ resolvedAt[1] = [year |-> 2024, month |-> 2, day |-> 5, hours |-> 9, minutes |-> 8]
    /\ folderName[1] =
           <<"c", "o", "n", "t", "e", "n", "t", "/", "p", "o", "s", "t", "s", "/",
             "n", "o", "t", "e", "-", "2", "0", "2", "4", "-", "0", "3", "-",
             "0", "5", "-", "0", "9", "-", "0", "8", "-", "h", "e", "l", "l", "o">>

\* ----------------------------------------------------------------- C3

\* C3: if folder creation fails, the run shows a notice carrying the
\* failure's description, never requests file creation or navigation, and
\* terminates without retrying.
C3_FolderFailureEndsTheRun ==
    \A r \in Runs :
        Count(log[r], "folderFail") > 0 =>
            /\ pc[r] = "done"
            /\ Len(thrown[r]) = 1
            /\ notices[r] = <<postKind[r], postTitle[r], thrown[r][1]>>
            /\ Count(log[r], "createFolder") = 1
            /\ Count(log[r], "createFile") = 0
            /\ Count(log[r], "openFile") = 0
            /\ Count(log[r], "noticeError") = 1
            /\ Last(log[r]) = "noticeError"

\* A run whose folder another run had already made: it failed with EEXIST.
C3_Witness ==
    \E r \in Runs :
        /\ Count(log[r], "folderFail") > 0
        /\ folderName[r] \in vaultFolders
        /\ thrown[r] = << <<"E", "E", "X", "I", "S", "T">> >>

\* ----------------------------------------------------------------- C5

\* C5: a confirm resolves the Text Prompt with the value of the last change
\* event delivered before it, and with the empty string when there was none.
C5_ResolvesWithLastChange ==
    [][ \A r \in Runs :
            (pc[r] = "awaitTitle" /\ pc'[r] # "awaitTitle") =>
                postTitle'[r] = (IF lastChange[r] = <<>> THEN <<>> ELSE lastChange[r][1])
      ]_vars

\* A run whose title prompt resolved with a text that was typed.
C5_Witness ==
    \E r \in Runs :
        /\ Count(log[r], "textResolved") = 1
        /\ postTitle[r] = Hello
        /\ name[r] = Hello

\* ----------------------------------------------------------------- C6

\* C6: each prompt calls its resolver once per confirmation and never twice;
\* after a selection or a submit the prompt is closed; a run captures one
\* kind and one title and requests folder creation at most once.
C6_PromptsResolveOnce ==
    \A r \in Runs :
        /\ resolveCalls[r].kind <= 1
        /\ resolveCalls[r].title <= 1
        /\ resolveCalls[r].kind = Count(log[r], "choiceResolved")
        /\ resolveCalls[r].title = Count(log[r], "textResolved")
        /\ resolveCalls[r].kind = 1 => ~chooserOpen[r]
        /\ resolveCalls[r].title = 1 => ~titleOpen[r]
        /\ Count(log[r], "createFolder") <= 1

\* Both prompts of a run resolved and its folder creation is requested.
C6_Witness ==
    \E r \in Runs :
        /\ resolveCalls[r] = [kind |-> 1, title |-> 1]
        /\ Count(log[r], "createFolder") = 1
        /\ ~chooserOpen[r]
        /\ ~titleOpen[r]

\* ----------------------------------------------------------------- C8

\* C8: once a prompt is closed without confirming, the run never resumes:
\* it requests no folder, no file and no navigation and shows no failure
\* notice, and it never terminates.
C8_DismissedRunStalls ==
    \A r \in Runs :
        /\ dismissed[r] = "choice" =>
              /\ pc[r] = "awaitKind"
              /\ log[r] = SubSeq(StepsInOrder, 1, 1)
              /\ notices[r] = <<>>
        /\ dismissed[r] = "text" =>
              /\ pc[r] = "awaitTitle"
              /\ log[r] = SubSeq(StepsInOrder, 1, 4)
              /\ notices[r] = <<postKind[r]>>
        /\ dismissed[r] # "none" =>
              /\ folderName[r] = <<>>
              /\ thrown[r] = <<>>
              /\ ~chooserOpen[r]
              /\ ~titleOpen[r]

\* One run stalled at its Choice Prompt and a later one at its Text Prompt,
\* after a title had been typed.
C8_Witness ==
    \E r, q \in Runs :
        /\ dismissed[r] = "choice"
        /\ dismissed[q] = "text"
        /\ name[q] = Hello

\* ----------------------------------------------------------------- C9

\* C9: if folder creation succeeds and file creation or the open-file step
\* then fails, the failure is shown as a notice and nothing is deleted: the
\* folder remains in storage, without index.md when file creation failed,
\* and navigation is not requested after a failed file creation.
C9_NoCleanupAfterLateFailure ==
    \A r \in Runs :
        /\ Count(log[r], "fileFail") > 0 =>
              /\ pc[r] = "done"
              /\ folderName[r] \in vaultFolders
              /\ folderName[r] \o <<"/", "i", "n", "d", "e", "x", ".", "m", "d">> \notin vaultFiles
              /\ Count(log[r], "openFile") = 0
              /\ Len(thrown[r]) = 1
              /\ notices[r] = <<postKind[r], postTitle[r], folderName[r], thrown[r][1]>>
        /\ Count(log[r], "openFail") > 0 =>
              /\ pc[r] = "done"
              /\ folderName[r] \in vaultFolders
              /\ folderName[r] \o <<"/", "i", "n", "d", "e", "x", ".", "m", "d">> \in vaultFiles
              /\ Len(thrown[r]) = 1
              /\ notices[r] = <<postKind[r], postTitle[r], folderName[r], thrown[r][1]>>

\* One run failed at file creation and another at the open-file step.
C9_Witness ==
    \E r, q \in Runs :
        /\ Count(log[r], "fileFail") > 0
        /\ Count(log[q], "openFail") > 0

=============================================================================
